---- MODULE Spec2Model ----
(***************************************************************************)
(* A model of hash_encoding.py: HashEmbedder (the multiresolution hash     *)
(* encoding: __init__, trilinear_interp, forward) and SHEncoder (the       *)
(* spherical-harmonics encoding of directions).                            *)
(*                                                                         *)
(* Floating-point numbers are modelled as extended rationals: a pair       *)
(* <<n, d>> in lowest terms with d > 0 is the finite value n/d, and the    *)
(* pairs with d = 0 are the IEEE-754 special values: <<1, 0>> is +inf,     *)
(* <<-1, 0>> is -inf and <<0, 0>> is NaN.  The inputs are chosen so that   *)
(* every finite value is exactly representable (small dyadic rationals),   *)
(* except where a comment says how rounding is modelled.                   *)
(***************************************************************************)
EXTENDS Integers, Sequences, FiniteSets, TLC

VARIABLES embedder, call, op, interp, grid, sh

vars == <<embedder, call, op, interp, grid, sh>>

(***************************************************************************)
(* Extended rational arithmetic (the float tensors' +, -, *, /).           *)
(***************************************************************************)
Abs(n) == IF n < 0 THEN -n ELSE n

Sign(n) == IF n < 0 THEN -1 ELSE IF n > 0 THEN 1 ELSE 0

RECURSIVE GCD(_, _)
GCD(a, b) == IF b = 0 THEN a ELSE GCD(b, a % b)

Norm(n, d) ==
    IF d = 1 THEN <<n, 1>>
    ELSE IF d = 0 THEN <<Sign(n), 0>>
    ELSE LET g == GCD(Abs(n), Abs(d))
         IN  <<(Sign(d) * n) \div g, Abs(d) \div g>>

NaN == <<0, 0>>
PInf == <<1, 0>>
NInf == <<-1, 0>>
Zero == <<0, 1>>
One == <<1, 1>>
Num(n) == <<n, 1>>

IsFinite(a) == a[2] # 0
IsNaN(a) == a = NaN

FNeg(a) == <<-a[1], a[2]>>

\* inf * 0 = NaN, inf * x = +-inf, NaN * x = NaN all fall out of the products.
FMul(a, b) == Norm(a[1] * b[1], a[2] * b[2])

FAdd(a, b) ==
    IF IsFinite(a) /\ IsFinite(b) THEN Norm(a[1] * b[2] + b[1] * a[2], a[2] * b[2])
    ELSE IF IsNaN(a) \/ IsNaN(b) THEN NaN
    ELSE IF IsFinite(b) THEN a
    ELSE IF IsFinite(a) THEN b
    ELSE IF a = b THEN a
    ELSE NaN

FSub(a, b) == FAdd(a, FNeg(b))

\* 1/b; the zero of a difference max - min is +0, so 1/0 is +inf.
FRecip(b) ==
    IF IsNaN(b) THEN NaN
    ELSE IF ~IsFinite(b) THEN Zero
    ELSE IF b[1] = 0 THEN PInf
    ELSE Norm(b[2], b[1])

FDiv(a, b) == FMul(a, FRecip(b))

\* torch.floor of a finite value, as an integer.
Floor(a) == a[1] \div a[2]

FLeq(a, b) == a[1] * b[2] <= b[1] * a[2]

(***************************************************************************)
(* HashEmbedder.trilinear_interp, for one row of the batch.  Vectors over  *)
(* the three axes are functions on 0..2 and the eight corners' features    *)
(* are a function on 0..7 (the code's indices); a feature vector is a      *)
(* sequence of n_features_per_level values.                                *)
(***************************************************************************)
Axis == 0 .. 2
Corner == 0 .. 7

\* The function f itself, tabulated: TLC then computes each of its values
\* once instead of at every application.
Tabulated(f) == f @@ <<>>

\* The element of a set of one element.  In Only({F(v) : v \in {e}}) TLC
\* computes e once and F reads its value.
Only(S) == CHOOSE v \in S : TRUE

\* line 64: weights = (x - voxel_min_vertex) / (voxel_max_vertex - voxel_min_vertex)
Weights(x, voxel_min_vertex, voxel_max_vertex) ==
    Tabulated([d \in Axis |-> FDiv(FSub(x[d], voxel_min_vertex[d]),
                                   FSub(voxel_max_vertex[d], voxel_min_vertex[d]))])

\* u * (1 - w) + v * w, feature by feature
Lerp(u, v, w) ==
    LET one_minus_w == FSub(One, w)
    IN  Tabulated([f \in 1 .. Len(u) |-> FAdd(FMul(u[f], one_minus_w), FMul(v[f], w))])

\* A plausible slip: the corners paired as if axis 0 were the low bit.
BlendAxis0LowBit(weights, voxel_embedds) ==
    LET c00 == Lerp(voxel_embedds[0], voxel_embedds[1], weights[0])
        c01 == Lerp(voxel_embedds[4], voxel_embedds[5], weights[0])
        c10 == Lerp(voxel_embedds[2], voxel_embedds[3], weights[0])
        c11 == Lerp(voxel_embedds[6], voxel_embedds[7], weights[0])
        c0 == Lerp(c00, c10, weights[1])
        c1 == Lerp(c01, c11, weights[1])
    IN  Lerp(c0, c1, weights[2])

\* lines 68-78: 8 -> 4 along axis 0, 4 -> 2 along axis 1, 2 -> 1 along axis 2
Blend(weights, voxel_embedds) ==
    LET c00 == Lerp(voxel_embedds[0], voxel_embedds[4], weights[0])
        c01 == Lerp(voxel_embedds[1], voxel_embedds[5], weights[0])
        c10 == Lerp(voxel_embedds[2], voxel_embedds[6], weights[0])
        c11 == Lerp(voxel_embedds[3], voxel_embedds[7], weights[0])
        c0 == Lerp(c00, c10, weights[1])
        c1 == Lerp(c01, c11, weights[1])
    IN  Lerp(c0, c1, weights[2])

trilinear_interp(x, voxel_min_vertex, voxel_max_vertex, voxel_embedds) ==
    Blend(Weights(x, voxel_min_vertex, voxel_max_vertex), voxel_embedds)

(***************************************************************************)
(* Values of the variables a specification does not use.                   *)
(***************************************************************************)
NoInterp == [state |-> "unused"]
NoGrid == [state |-> "unused"]
NoSH == [state |-> "unused"]
NoEmbedder == [state |-> "unused"]
NoCall == [state |-> "unused"]

(***************************************************************************)
(* SpecInterp: trilinear_interp applied to one query point.  The voxel's   *)
(* min vertex is fixed, its extent and the point's offset from the min     *)
(* vertex range over 0..InterpMaxExtent on each axis, so that degenerate   *)
(* voxels (extent 0), corners (offset 0 or the extent), interior points    *)
(* and points beyond the voxel all occur.                                  *)
(***************************************************************************)
InterpMaxExtent == 2

InterpMinVertex == Tabulated([d \in Axis |-> Num(d)])

InterpOffsets == [Axis -> 0 .. InterpMaxExtent]

\* Eight corner feature vectors (two features each): all distinct, all zero,
\* and a single non-zero corner.
InterpEmbedds ==
    { Tabulated([k \in Corner |-> <<Num(k + 1), Num(-(k + 1))>>]),
      Tabulated([k \in Corner |-> <<Zero, Zero>>]),
      Tabulated([k \in Corner |-> <<Num(IF k = 6 THEN 1 ELSE 0), Num(k * k)>>]) }

InterpInit ==
    /\ \E ext \in InterpOffsets, off \in InterpOffsets, e \in InterpEmbedds :
          interp = [state |-> "input",
                    x |-> Tabulated([d \in Axis |-> Num(d + off[d])]),
                    voxel_min_vertex |-> InterpMinVertex,
                    voxel_max_vertex |-> Tabulated([d \in Axis |-> Num(d + ext[d])]),
                    voxel_embedds |-> e,
                    weights |-> Tabulated([d \in Axis |-> Zero]),
                    c |-> <<>>]
    /\ embedder = NoEmbedder
    /\ call = NoCall
    /\ op = "init"
    /\ grid = NoGrid
    /\ sh = NoSH

InterpApply ==
    /\ interp.state = "input"
    /\ interp' = [interp EXCEPT
                    !.state = "done",
                    !.weights = Weights(interp.x, interp.voxel_min_vertex,
                                        interp.voxel_max_vertex),
                    !.c = trilinear_interp(interp.x, interp.voxel_min_vertex,
                                           interp.voxel_max_vertex,
                                           interp.voxel_embedds)]
    /\ op' = "trilinear_interp"
    /\ UNCHANGED <<embedder, call, grid, sh>>

InterpNext == InterpApply

SpecInterp == InterpInit /\ [][InterpNext]_vars

DegenerateAxes == {d \in Axis : interp.voxel_max_vertex[d] = interp.voxel_min_vertex[d]}

\* The weights a guarded blender would use: 0 on a zero-extent axis.
GuardedWeights ==
    [d \in Axis |->
        IF d \in DegenerateAxes THEN Zero
        ELSE FDiv(FSub(interp.x[d], interp.voxel_min_vertex[d]),
                  FSub(interp.voxel_max_vertex[d], interp.voxel_min_vertex[d]))]

\* C5: on a voxel with zero extent along some axis, the weight of that axis is
\* taken as 0 and the result is the (finite) blend of the min-side corners
\* along that axis.
C5_DegenerateVoxelGuarded ==
    (interp.state = "done" /\ DegenerateAxes # {}) =>
        /\ \A d \in DegenerateAxes : interp.weights[d] = Zero
        /\ interp.c = Blend(GuardedWeights, interp.voxel_embedds)

\* What the code does on a degenerate voxel: the weight is NaN or +-inf and
\* every component of the result is non-finite.
C5_DegenerateVoxelNonFinite ==
    (interp.state = "done" /\ DegenerateAxes # {}) =>
        /\ \A d \in DegenerateAxes : ~IsFinite(interp.weights[d])
        /\ \A f \in 1 .. Len(interp.c) : ~IsFinite(interp.c[f])

\* The per-axis weight bit of a query point on a corner of the voxel.
AtCorner ==
    /\ DegenerateAxes = {}
    /\ \A d \in Axis : interp.x[d] \in {interp.voxel_min_vertex[d], interp.voxel_max_vertex[d]}

CornerBit(d) == IF interp.x[d] = interp.voxel_max_vertex[d] THEN 1 ELSE 0

\* C6: at a corner of a non-degenerate voxel (weights (w0, w1, w2) in {0,1}^3)
\* the blend is exactly voxel_embedds[4*w0 + 2*w1 + w2].
C6_CornerExact ==
    (interp.state = "done" /\ AtCorner) =>
        interp.c = interp.voxel_embedds[4 * CornerBit(0) + 2 * CornerBit(1) + CornerBit(2)]

\* the query point on corner 5 = 101 of a non-degenerate voxel
C6_Witness ==
    /\ interp.state = "done"
    /\ AtCorner
    /\ CornerBit(0) = 1 /\ CornerBit(1) = 0 /\ CornerBit(2) = 1
    /\ interp.voxel_embedds[5] = <<Num(6), Num(-6)>>
    /\ interp.c = <<Num(6), Num(-6)>>

(***************************************************************************)
(* The growth law of the per-level resolutions.                            *)
(*                                                                         *)
(* b = exp((log(finest) - log(base)) / (n_levels - 1)) is in general       *)
(* irrational, so it is kept symbolically as [ratio, root], standing for   *)
(* ratio^(1/root) with ratio = finest/base and root = n_levels - 1.        *)
(* root = 0 is the float division by zero of n_levels = 1: the quotient is *)
(* +inf, NaN or -inf as finest >, =, < base, and b = exp of that is +inf,  *)
(* NaN or 0 (no exception is raised: the operands are float tensors).      *)
(***************************************************************************)
RECURSIVE Pow(_, _)
Pow(a, k) == IF k = 0 THEN 1 ELSE a * Pow(a, k - 1)

\* A plausible slip: dividing by n_levels instead of n_levels - 1.
GrowthFactorOffByOne(n_levels, base_resolution, finest_resolution) ==
    [ratio |-> FDiv(finest_resolution, base_resolution), root |-> n_levels]

\* line 40
GrowthFactor(n_levels, base_resolution, finest_resolution) ==
    [ratio |-> FDiv(finest_resolution, base_resolution), root |-> n_levels - 1]

\* The float value of b where it is a special value or exactly 1.
BIsInf(b) == b.root = 0 /\ ~FLeq(b.ratio, One)
BIsNaN(b) == b.root = 0 /\ b.ratio = One
BIsZero(b) == b.root = 0 /\ b.ratio # One /\ FLeq(b.ratio, One)
BIsOne(b) == b.root # 0 /\ b.ratio = One

\* n <= base * ratio^(i/root), compared exactly: both sides raised to root.
BelowExact(n, base, b, i) ==
    Pow(n, b.root) * Pow(base[2], b.root) * Pow(b.ratio[2], i)
        <= Pow(base[1], b.root) * Pow(b.ratio[1], i)

EqualsExact(n, base, b, i) ==
    Pow(n, b.root) * Pow(base[2], b.root) * Pow(b.ratio[2], i)
        = Pow(base[1], b.root) * Pow(b.ratio[1], i)

\* floor of the exact value of base * b^i, for root >= 1
ExactFloor(base, b, i) ==
    LET hi == Floor(base) + Floor(FMul(base, b.ratio)) + 1
    IN  CHOOSE n \in 0 .. hi : BelowExact(n, base, b, i) /\ ~BelowExact(n + 1, base, b, i)

(***************************************************************************)
(* line 91: resolution = floor(base_resolution * b ** i), as the set of    *)
(* values the float computation can produce.  b ** 0 is 1 for every b,     *)
(* NaN and inf included, and b is exactly 1 when finest = base, so these   *)
(* cases are exact.  Otherwise the computed product is within rounding     *)
(* error of the exact one: the floor is the exact floor, except when the   *)
(* exact product is an integer v, where the float may fall just below it   *)
(* and the floor is v - 1 or v.                                            *)
(***************************************************************************)
Resolutions(base_resolution, b, i) ==
    IF i = 0 \/ BIsOne(b) THEN {Floor(base_resolution)}
    ELSE LET v == ExactFloor(base_resolution, b, i)
         IN  IF EqualsExact(v, base_resolution, b, i) THEN {v - 1, v} ELSE {v}

(***************************************************************************)
(* SpecGrid: the resolutions alone.  The constructor's line 40 on          *)
(* (n_levels, base_resolution, finest_resolution), then forward's loop     *)
(* computing one resolution per level.  Resolutions are halves from 1 up.  *)
(***************************************************************************)
GridMaxLevels == 4
GridMaxBase == 3
GridMaxFinest == 5

HalvesUpTo(max) == {Norm(n, 2) : n \in 2 .. 2 * max}

GridInit ==
    /\ grid = [state |-> "new", n_levels |-> 0, base_resolution |-> One,
               finest_resolution |-> One, b |-> [ratio |-> One, root |-> 0],
               resolutions |-> <<>>]
    /\ embedder = NoEmbedder
    /\ call = NoCall
    /\ op = "init"
    /\ interp = NoInterp
    /\ sh = NoSH

GridConstruct ==
    /\ grid.state = "new"
    /\ \E L \in 0 .. GridMaxLevels, base \in HalvesUpTo(GridMaxBase),
          finest \in HalvesUpTo(GridMaxFinest) :
          grid' = [state |-> IF L = 0 THEN "done" ELSE "loop",
                   n_levels |-> L, base_resolution |-> base,
                   finest_resolution |-> finest,
                   b |-> GrowthFactor(L, base, finest),
                   resolutions |-> <<>>]
    /\ op' = "__init__"
    /\ UNCHANGED <<embedder, call, interp, sh>>

\* one iteration of forward's loop, lines 88-91; the list is 1-based, so
\* resolutions[i + 1] is the resolution of level i
GridLevel ==
    /\ grid.state = "loop"
    /\ LET i == Len(grid.resolutions)
       IN  \E r \in Resolutions(grid.base_resolution, grid.b, i) :
              grid' = [grid EXCEPT
                         !.resolutions = Append(@, r),
                         !.state = IF i + 1 = grid.n_levels THEN "done" ELSE "loop"]
    /\ op' = "forward"
    /\ UNCHANGED <<embedder, call, interp, sh>>

GridNext == GridConstruct \/ GridLevel

SpecGrid == GridInit /\ [][GridNext]_vars

GridLawHolds ==
    /\ \A k \in 1 .. grid.n_levels - 1 : grid.resolutions[k] <= grid.resolutions[k + 1]
    /\ FLeq(Num(grid.resolutions[1] - 1), grid.base_resolution)
    /\ FLeq(grid.base_resolution, Num(grid.resolutions[1] + 1))
    /\ FLeq(Num(grid.resolutions[grid.n_levels] - 1), grid.finest_resolution)
    /\ FLeq(grid.finest_resolution, Num(grid.resolutions[grid.n_levels] + 1))

\* C8: for every valid configuration (n_levels >= 1, finest >= base
\* > 0) the resolutions are non-decreasing, the first is within 1 of
\* base_resolution and the last within 1 of finest_resolution.
C8_ResolutionsAsStated ==
    (/\ grid.state = "done"
     /\ grid.n_levels >= 1
     /\ FLeq(grid.base_resolution, grid.finest_resolution)) => GridLawHolds

\* C8, two levels or more: for n_levels >= 2 and finest >= base > 0 the
\* resolutions are non-decreasing, the first within 1 of base_resolution and
\* the last within 1 of finest_resolution; with a single level the one
\* resolution is floor(base_resolution).
C8_ResolutionsTwoLevels ==
    (/\ grid.state = "done"
     /\ grid.n_levels >= 1
     /\ FLeq(grid.base_resolution, grid.finest_resolution)) =>
        IF grid.n_levels >= 2 THEN GridLawHolds
        ELSE grid.resolutions = <<Floor(grid.base_resolution)>>

\* three levels from 3/2 to 5: the last level's exact resolution is the
\* integer 5 and the float product fell below it
C8_Witness ==
    /\ grid.state = "done"
    /\ grid.n_levels = 3
    /\ grid.base_resolution = <<3, 2>>
    /\ grid.finest_resolution = Num(5)
    /\ grid.resolutions[1] = 1
    /\ grid.resolutions[3] = 4

(***************************************************************************)
(* SHEncoder.  The coefficients are kept in millionths (C0 = 0.282095)     *)
(* and the components of the input vector are integers, so every output    *)
(* component is an exact integer number of millionths.  A slot of the      *)
(* result is [set, val]: torch.empty hands out uninitialised storage, so a *)
(* slot that was never assigned holds an arbitrary value and set = FALSE.  *)
(***************************************************************************)
C0 == 282095
C1 == 488603
C2 == <<1092548, -1092548, 315392, -1092548, 546274>>
C3 == <<-590044, 2890611, -457046, 373176, -457046, 1445306, -590044>>
C4 == <<2503343, -1770131, 946175, -669047, 105786, -669047, 473087, -1770131, 625836>>

\* A plausible slip: the (degree + 1)^2 of the convention that counts bands from 0.
SHOutDimInclusive(degree) == (degree + 1) * (degree + 1)

\* line 127
SHOutDim(degree) == degree * degree

\* line 162: torch.empty
SHEmpty(out_dim, garbage) == Tabulated([k \in 0 .. out_dim - 1 |-> [set |-> FALSE, val |-> garbage]])

\* result[..., first + j] = vals[j + 1], for each value of the sequence
SHAssign(result, first, vals) ==
    Tabulated([k \in DOMAIN result |->
        IF k \in first .. first + Len(vals) - 1
        THEN [set |-> TRUE, val |-> vals[k - first + 1]]
        ELSE result[k]])

\* lines 167-169
SHBand1(x, y, z) == <<-C1 * y, C1 * z, -C1 * x>>

\* lines 171-178
SHBand2(x, y, z) ==
    LET xx == x * x
        yy == y * y
        zz == z * z
        xy == x * y
        yz == y * z
        xz == x * z
    IN  <<C2[1] * xy, C2[2] * yz, C2[3] * (2 * zz - xx - yy), C2[4] * xz, C2[5] * (xx - yy)>>

\* lines 180-186
SHBand3(x, y, z) ==
    LET xx == x * x
        yy == y * y
        zz == z * z
        xy == x * y
    IN  <<C3[1] * y * (3 * xx - yy),
          C3[2] * xy * z,
          C3[3] * y * (4 * zz - xx - yy),
          C3[4] * z * (2 * zz - 3 * xx - 3 * yy),
          C3[5] * x * (4 * zz - xx - yy),
          C3[6] * z * (xx - yy),
          C3[7] * x * (xx - 3 * yy)>>

\* lines 188-196
SHBand4(x, y, z) ==
    LET xx == x * x
        yy == y * y
        zz == z * z
        xy == x * y
        yz == y * z
        xz == x * z
    IN  <<C4[1] * xy * (xx - yy),
          C4[2] * yz * (3 * xx - yy),
          C4[3] * xy * (7 * zz - 1),
          C4[4] * yz * (7 * zz - 3),
          C4[5] * (zz * (35 * zz - 30) + 3),
          C4[6] * xz * (7 * zz - 3),
          C4[7] * (xx - yy) * (7 * zz - 1),
          C4[8] * xz * (xx - 3 * yy),
          C4[9] * (xx * (xx - 3 * yy) - yy * (3 * xx - yy))>>

\* SHEncoder.forward, lines 160-198, on one input vector <<x, y, z>>
SHForward(degree, out_dim, input, garbage) ==
    LET x == input[1]
        y == input[2]
        z == input[3]
        r0 == SHAssign(SHEmpty(out_dim, garbage), 0, <<C0>>)
        r1 == SHAssign(r0, 1, SHBand1(x, y, z))
        r2 == SHAssign(r1, 4, SHBand2(x, y, z))
        r3 == SHAssign(r2, 9, SHBand3(x, y, z))
        r4 == SHAssign(r3, 16, SHBand4(x, y, z))
    IN  IF degree > 1
        THEN IF degree > 2
             THEN IF degree > 3
                  THEN IF degree > 4 THEN r4 ELSE r3
                  ELSE r2
             ELSE r1
        ELSE r0

(***************************************************************************)
(* SpecSH: an SHEncoder is constructed (the assertions of lines 124-125    *)
(* reject input_dim # 3 and degree outside 1..5) and forward is applied to *)
(* one vector with components in -SHMaxCoord..SHMaxCoord.                  *)
(***************************************************************************)
SHMaxCoord == 1
SHMaxDegree == 6

SHInputs == (-SHMaxCoord .. SHMaxCoord) \X (-SHMaxCoord .. SHMaxCoord) \X (-SHMaxCoord .. SHMaxCoord)

SHGarbage == {0, 999}

SHInit ==
    /\ sh = [state |-> "new", input_dim |-> 0, degree |-> 0, out_dim |-> 0,
             input |-> <<0, 0, 0>>, garbage |-> 0, result |-> <<>>]
    /\ embedder = NoEmbedder
    /\ call = NoCall
    /\ op = "init"
    /\ interp = NoInterp
    /\ grid = NoGrid

\* SHEncoder.__init__, lines 114-127
SHConstruct ==
    /\ sh.state = "new"
    /\ \E input_dim \in {2, 3}, degree \in 0 .. SHMaxDegree :
          sh' = IF input_dim = 3 /\ degree >= 1 /\ degree <= 5
                THEN [sh EXCEPT !.state = "constructed", !.input_dim = input_dim,
                                !.degree = degree, !.out_dim = SHOutDim(degree)]
                ELSE [sh EXCEPT !.state = "assertion_error", !.input_dim = input_dim,
                                !.degree = degree]
    /\ op' = "__init__"
    /\ UNCHANGED <<embedder, call, interp, grid>>

SHEncode ==
    /\ sh.state \in {"constructed", "done"}
    /\ \E input \in SHInputs, garbage \in SHGarbage :
          sh' = [sh EXCEPT !.state = "done", !.input = input, !.garbage = garbage,
                           !.result = SHForward(sh.degree, sh.out_dim, input, garbage)]
    /\ op' = "forward"
    /\ UNCHANGED <<embedder, call, interp, grid>>

SHNext == SHConstruct \/ SHEncode

SpecSH == SHInit /\ [][SHNext]_vars

\* C9: for every degree d in 1..5 and every input, forward returns exactly d^2
\* components, each of them assigned, component 0 is C0, and for d >= 2 the
\* first (d-1)^2 components are the output of the encoder of degree d - 1 on
\* the same vector.
C9_SHHierarchical ==
    sh.state = "done" =>
        /\ sh.degree \in 1 .. 5
        /\ DOMAIN sh.result = 0 .. sh.degree * sh.degree - 1
        /\ \A k \in DOMAIN sh.result : sh.result[k].set
        /\ sh.result[0].val = C0
        /\ sh.degree >= 2 =>
              LET lower == SHForward(sh.degree - 1, (sh.degree - 1) * (sh.degree - 1),
                                     sh.input, sh.garbage)
              IN  /\ DOMAIN lower = 0 .. (sh.degree - 1) * (sh.degree - 1) - 1
                  /\ \A k \in DOMAIN lower : sh.result[k] = lower[k]

C9_Witness ==
    /\ sh.state = "done"
    /\ sh.degree = 5
    /\ sh.input = <<1, -1, 1>>
    /\ sh.garbage = 999
    /\ sh.result[24].val = -4 * C4[9]
    /\ sh.result[8].val = 0

(***************************************************************************)
(* The Voxel Indexer, utils.get_voxel_vertices.  It is imported by         *)
(* hash_encoding.py and not part of it; it is modelled from the contract   *)
(* the specification gives: clamp the point into the bounding box, locate  *)
(* the cell of the grid with `resolution` cells per axis that holds it,    *)
(* and hash the integer coordinates of the cell's 8 corners (corner        *)
(* 4a + 2b + c is the cell's index plus (a, b, c)) by XOR-ing each         *)
(* coordinate times a prime and reducing modulo 2^log2_hashmap_size.       *)
(***************************************************************************)
RECURSIVE BitXor(_, _)
BitXor(a, b) ==
    IF a = 0 THEN b
    ELSE IF b = 0 THEN a
    ELSE 2 * BitXor(a \div 2, b \div 2) + ((a + b) % 2)

\* The published primes 1, 2654435761 and 805459861, reduced modulo 2^16
\* (the table sizes here are far smaller, and the reduction commutes with XOR).
HashPrimes == Tabulated([d \in Axis |-> CASE d = 0 -> 1 [] d = 1 -> 31153 [] d = 2 -> 22421])

HashCoords(coords, log2_hashmap_size) ==
    LET size == Pow(2, log2_hashmap_size)
        h(d) == (coords[d] * HashPrimes[d]) % size
    IN  BitXor(BitXor(h(0), h(1)), h(2))

CornerOffset(k) == [d \in Axis |-> CASE d = 0 -> k \div 4 [] d = 1 -> (k \div 2) % 2 [] d = 2 -> k % 2]

Clamp(v, lo, hi) == IF FLeq(v, lo) THEN lo ELSE IF FLeq(hi, v) THEN hi ELSE v

NoFault == [level |-> -1, corner |-> 0, delta |-> 0]

\* The indexer's answer for one point.  `fault` models an indexer that breaks
\* its contract: at level fault.level it returns the index of corner
\* fault.corner shifted by fault.delta table sizes, out of the table's range.
VoxelOfPoint(xyz, bounding_box, resolution, log2_hashmap_size, level, fault) ==
    LET box_min == bounding_box[1]
        box_max == bounding_box[2]
        grid_size ==
            Tabulated([d \in Axis |-> FDiv(FSub(box_max[d], box_min[d]), Num(resolution))])
        bottom_left_idx ==
            Tabulated([d \in Axis |->
                Floor(FDiv(FSub(Clamp(xyz[d], box_min[d], box_max[d]), box_min[d]),
                           grid_size[d]))])
        voxel_min_vertex ==
            Tabulated([d \in Axis |->
                FAdd(FMul(Num(bottom_left_idx[d]), grid_size[d]), box_min[d])])
        shift(k) == IF level = fault.level /\ k = fault.corner
                    THEN fault.delta * Pow(2, log2_hashmap_size) ELSE 0
    IN  [voxel_min_vertex |-> voxel_min_vertex,
         voxel_max_vertex |->
            Tabulated([d \in Axis |-> FAdd(voxel_min_vertex[d], grid_size[d])]),
         hashed_voxel_indices |->
            Tabulated([k \in Corner |->
                HashCoords([d \in Axis |-> bottom_left_idx[d] + CornerOffset(k)[d]],
                           log2_hashmap_size) + shift(k)])]

\* for a batch: one answer per point
get_voxel_vertices(x, bounding_box, resolution, log2_hashmap_size, level, fault) ==
    Tabulated([p \in 1 .. Len(x) |->
        VoxelOfPoint(x[p], bounding_box, resolution, log2_hashmap_size, level, fault)])

(***************************************************************************)
(* HashEmbedder.  The object is the record `embedder`; its fields carry    *)
(* the attributes' names.  embeddings[i] is the weight of level i's        *)
(* nn.Embedding: a function from 0..2^log2_hashmap_size - 1 to rows of     *)
(* n_features_per_level numbers, in units of 1e-4 (the initial range is    *)
(* [-1e-4, 1e-4]).  `version` counts the optimizer's in-place updates.     *)
(***************************************************************************)
MaxLevels == 2
MaxFeatures == 2
MaxBatch == 2
MaxSteps == 1

Log2Sizes == {1, 2}
BaseResolutions == {Num(2)}
FinestResolutions == {Num(1), Num(2), Num(4)}
Seeds == {1}

BoundingBox == <<Tabulated([d \in Axis |-> Zero]), Tabulated([d \in Axis |-> One])>>

\* The points of the batches: an interior point, a point outside the box,
\* the centre of the box and the origin, repeated in this order.
PointAt(n) ==
    CASE n % 4 = 1 -> Tabulated([d \in Axis |-> CASE d = 0 -> <<1, 4>> [] d = 1 -> <<5, 8>> [] d = 2 -> One])
      [] n % 4 = 2 -> Tabulated([d \in Axis |-> CASE d = 0 -> <<3, 2>> [] d = 1 -> <<-1, 4>> [] d = 2 -> <<3, 4>>])
      [] n % 4 = 3 -> Tabulated([d \in Axis |-> <<1, 2>>])
      [] n % 4 = 0 -> Tabulated([d \in Axis |-> Zero])

\* the batches: the runs of at most MaxBatch consecutive points that start at
\* the first or the second point
Batches ==
    {Tabulated([p \in 1 .. n |-> PointAt(first + p - 1)]) : first \in 1 .. 2, n \in 0 .. MaxBatch}

\* line 51: nn.init.uniform_(weight, -0.0001, 0.0001); one draw per seed
InitWeight(seed, i, h, f) == ((seed + i + 2 * h + f) % 3) - 1

NewEmbedder ==
    [state |-> "new", bounding_box |-> BoundingBox, n_levels |-> 0,
     n_features_per_level |-> 0, log2_hashmap_size |-> 0,
     base_resolution |-> One, finest_resolution |-> One, out_dim |-> 0,
     b |-> [ratio |-> One, root |-> 0], embeddings |-> <<>>, version |-> 0]

IdleCall ==
    [state |-> "idle", x |-> <<>>, resolutions |-> <<>>, voxels |-> <<>>,
     result |-> [rows |-> 0, cols |-> 0, data |-> <<>>], error |-> "none"]

\* HashEmbedder.__init__, lines 8-51.  No argument is validated; the one
\* failure is nn.Embedding's, which cannot allocate a weight with a negative
\* number of columns (and is only built when n_levels >= 1).
Construct(bounding_box, n_levels, n_features_per_level, log2_hashmap_size, base_resolution, finest_resolution, seed) ==
    LET args == [NewEmbedder EXCEPT
                    !.bounding_box = bounding_box,
                    !.n_levels = n_levels,
                    !.n_features_per_level = n_features_per_level,
                    !.log2_hashmap_size = log2_hashmap_size,
                    !.base_resolution = base_resolution,
                    !.finest_resolution = finest_resolution]
    IN  IF n_levels >= 1 /\ n_features_per_level < 0
        THEN [args EXCEPT !.state = "raised"]
        ELSE [args EXCEPT
                !.state = "constructed",
                !.out_dim = n_levels * n_features_per_level,
                !.b = GrowthFactor(n_levels, base_resolution, finest_resolution),
                !.embeddings =
                    Tabulated([i \in 0 .. n_levels - 1 |->
                        Tabulated([h \in 0 .. Pow(2, log2_hashmap_size) - 1 |->
                            Tabulated([f \in 1 .. n_features_per_level |->
                                          InitWeight(seed, i, h, f)])])])]

\* A plausible slip: Python-style indexing, where an index out of the table
\* wraps around instead of raising.
EmbeddingLookupWrapping(weight, hashed_voxel_indices) ==
    [ok |-> TRUE,
     rows |-> Tabulated([p \in DOMAIN hashed_voxel_indices |->
                Tabulated([k \in Corner |->
                    LET row == weight[hashed_voxel_indices[p][k] % Cardinality(DOMAIN weight)]
                    IN  Tabulated([f \in 1 .. Len(row) |-> Num(row[f])])])])]

\* line 99: self.embeddings[i](hashed_voxel_indices).  nn.Embedding raises an
\* IndexError when an index is not in 0..num_embeddings - 1.
EmbeddingLookup(weight, hashed_voxel_indices) ==
    IF \E p \in DOMAIN hashed_voxel_indices, k \in Corner :
          hashed_voxel_indices[p][k] \notin DOMAIN weight
    THEN [ok |-> FALSE, rows |-> <<>>]
    ELSE [ok |-> TRUE,
          rows |-> Tabulated([p \in DOMAIN hashed_voxel_indices |->
                      Tabulated([k \in Corner |->
                         LET row == weight[hashed_voxel_indices[p][k]]
                         IN  Tabulated([f \in 1 .. Len(row) |-> Num(row[f])])])])]

\* What nn.Embedding(max_norm = ...) would do: renormalise the rows it reads,
\* in place (here: clip them to zero).
EmbeddingWeightRenormed(weight, looked_up) ==
    Tabulated([h \in DOMAIN weight |->
        IF h \in looked_up THEN Tabulated([f \in 1 .. Len(weight[h]) |-> 0]) ELSE weight[h]])

\* lines 44-45 and 99: the nn.Embedding is built without max_norm, so a lookup
\* of the rows `looked_up` reads the weight and leaves it as it was.
EmbeddingWeightAfterLookup(weight, looked_up) == weight

RECURSIVE CatRow(_, _, _)
CatRow(x_embedded_all, p, i) ==
    IF i \notin DOMAIN x_embedded_all THEN <<>>
    ELSE x_embedded_all[i].data[p] \o CatRow(x_embedded_all, p, i + 1)

RECURSIVE SumCols(_, _)
SumCols(x_embedded_all, i) ==
    IF i \notin DOMAIN x_embedded_all THEN 0
    ELSE x_embedded_all[i].cols + SumCols(x_embedded_all, i + 1)

RECURSIVE CatRowReversed(_, _, _)
CatRowReversed(x_embedded_all, p, i) ==
    IF i \notin DOMAIN x_embedded_all THEN <<>>
    ELSE CatRowReversed(x_embedded_all, p, i + 1) \o x_embedded_all[i].data[p]

RECURSIVE CatRowsDim0(_, _)
CatRowsDim0(x_embedded_all, i) ==
    IF i \notin DOMAIN x_embedded_all THEN <<>>
    ELSE x_embedded_all[i].data \o CatRowsDim0(x_embedded_all, i + 1)

\* A plausible slip: the levels joined along the batch dimension (dim = 0).
CatDim0(x_embedded_all) ==
    [rows |-> Len(CatRowsDim0(x_embedded_all, 0)),
     cols |-> x_embedded_all[0].cols,
     data |-> CatRowsDim0(x_embedded_all, 0)]

\* A plausible slip: the levels joined last level first.
CatReversed(x_embedded_all) ==
    [rows |-> x_embedded_all[0].rows,
     cols |-> SumCols(x_embedded_all, 0),
     data |-> Tabulated([p \in 1 .. x_embedded_all[0].rows |-> CatRowReversed(x_embedded_all, p, 0)])]

\* line 106: torch.cat(x_embedded_all, dim=-1) of a non-empty list of
\* tensors with the same number of rows
Cat(x_embedded_all) ==
    [rows |-> x_embedded_all[0].rows,
     cols |-> SumCols(x_embedded_all, 0),
     data |-> Tabulated([p \in 1 .. x_embedded_all[0].rows |-> CatRow(x_embedded_all, p, 0)])]

\* A plausible slip: every level reads the first level's table.
LevelTableShared(embeddings, i) == embeddings[0]

\* line 99: level i reads self.embeddings[i]
LevelTable(embeddings, i) == embeddings[i]

\* lines 102-104: the level's blend of every point, from the indexer's
\* answer and the rows looked up
LevelEmbedded(e, x, voxels, look) ==
    [voxels |-> voxels,
     ok |-> look.ok,
     x_embedded |->
        [rows |-> Len(x),
         cols |-> e.n_features_per_level,
         data |-> IF look.ok
                  THEN Tabulated([p \in 1 .. Len(x) |->
                          trilinear_interp(x[p], voxels[p].voxel_min_vertex,
                                           voxels[p].voxel_max_vertex, look.rows[p])])
                  ELSE <<>>]]

\* lines 99-104
LevelLookup(e, x, i, voxels) ==
    Only({LevelEmbedded(e, x, voxels, look) :
            look \in {EmbeddingLookup(LevelTable(e.embeddings, i),
                                      Tabulated([p \in 1 .. Len(x) |->
                                                    voxels[p].hashed_voxel_indices]))}})

\* One iteration of forward's loop, lines 91-104, given the resolution that
\* line 91 computed.
ForwardLevel(e, x, i, resolution, fault) ==
    Only({LevelLookup(e, x, i, voxels) :
            voxels \in {get_voxel_vertices(x, e.bounding_box, resolution,
                                           e.log2_hashmap_size, i, fault)}})

SetMin(S) == CHOOSE m \in S : \A n \in S : m <= n

\* The record of the call, from what each level's iteration gave: the levels
\* run in order until one raises; torch.cat (line 106) raises a RuntimeError
\* on an empty list (n_levels = 0).
RunOutcome(e, x, resolutions, levels) ==
    LET bad == {i \in DOMAIN levels : ~levels[i].ok}
        last == IF bad = {} THEN e.n_levels - 1 ELSE SetMin(bad)
        ran == [IdleCall EXCEPT
                  !.x = x,
                  !.resolutions = Tabulated([i \in 0 .. last |-> resolutions[i]]),
                  !.voxels = Tabulated([i \in 0 .. last |-> levels[i].voxels])]
    IN  IF bad # {} THEN [ran EXCEPT !.state = "raised", !.error = "IndexError"]
        ELSE IF e.n_levels = 0 THEN [ran EXCEPT !.state = "raised", !.error = "RuntimeError"]
        ELSE [ran EXCEPT
                !.state = "returned",
                !.result = Cat(Tabulated([i \in DOMAIN levels |-> levels[i].x_embedded]))]

\* HashEmbedder.forward, lines 84-106, as the record of the call
ForwardRun(e, x, resolutions, fault) ==
    Only({RunOutcome(e, x, resolutions, levels) :
            levels \in {Tabulated([i \in 0 .. e.n_levels - 1 |->
                                      ForwardLevel(e, x, i, resolutions[i], fault)])}})

\* the rows of level i's table that the call read
LookedUp(c, i) ==
    IF i \in DOMAIN c.voxels /\ ~(c.state = "raised" /\ c.error = "IndexError"
                                   /\ i = Cardinality(DOMAIN c.voxels) - 1)
    THEN {c.voxels[i][p].hashed_voxel_indices[k] : p \in 1 .. Len(c.x), k \in Corner}
    ELSE {}

ResolutionLists(e) ==
    LET all == UNION {Resolutions(e.base_resolution, e.b, i) : i \in 0 .. e.n_levels - 1}
    IN  {r \in [0 .. e.n_levels - 1 -> all] :
            \A i \in 0 .. e.n_levels - 1 : r[i] \in Resolutions(e.base_resolution, e.b, i)}

FaultCorners == {5}

Faults(n_levels) ==
    {NoFault} \cup
    {[level |-> i, corner |-> k, delta |-> s] :
        i \in 0 .. n_levels - 1, k \in FaultCorners, s \in {-1, 1}}

Init ==
    /\ embedder = NewEmbedder
    /\ call = IdleCall
    /\ op = "init"
    /\ interp = NoInterp
    /\ grid = NoGrid
    /\ sh = NoSH

DoConstruct ==
    /\ embedder.state = "new"
    /\ \E L \in 0 .. MaxLevels, F \in -1 .. MaxFeatures, T \in Log2Sizes,
          base \in BaseResolutions, finest \in FinestResolutions, seed \in Seeds :
          embedder' = Construct(BoundingBox, L, F, T, base, finest, seed)
    /\ op' = "__init__"
    /\ UNCHANGED <<call, interp, grid, sh>>

DoForward ==
    /\ embedder.state = "constructed"
    /\ call.state = "idle"
    /\ \E x \in Batches, resolutions \in ResolutionLists(embedder),
          fault \in Faults(embedder.n_levels) :
          call' = ForwardRun(embedder, x, resolutions, fault)
    /\ embedder' = [embedder EXCEPT
                      !.embeddings = Tabulated([i \in DOMAIN @ |->
                                        EmbeddingWeightAfterLookup(@[i], LookedUp(call', i))])]
    /\ op' = "forward"
    /\ UNCHANGED <<interp, grid, sh>>

\* The caller drops the result (or the exception) of the last call.
Release ==
    /\ call.state \in {"returned", "raised"}
    /\ call' = IdleCall
    /\ op' = "release"
    /\ UNCHANGED <<embedder, interp, grid, sh>>

\* The update one optimizer step makes to entry (h, f) of level i's table:
\* one unit up or down.
StepDelta(i, h, f) == IF (i + h + f) % 2 = 0 THEN 1 ELSE -1

\* The external optimizer, between forward evaluations: one in-place update
\* of the parameters, the entries of every level's table.
OptimizerStep ==
    /\ embedder.state = "constructed"
    /\ embedder.n_levels >= 1
    /\ call.state = "idle"
    /\ embedder.version < MaxSteps
    /\ embedder' = [embedder EXCEPT
                      !.embeddings =
                         Tabulated([i \in DOMAIN @ |->
                            Tabulated([h \in DOMAIN @[i] |->
                               Tabulated([f \in DOMAIN @[i][h] |->
                                            @[i][h][f] + StepDelta(i, h, f)])])]),
                      !.version = @ + 1]
    /\ op' = "optimizer_step"
    /\ UNCHANGED <<call, interp, grid, sh>>

Next == DoConstruct \/ DoForward \/ Release \/ OptimizerStep

Spec == Init /\ [][Next]_vars

(***************************************************************************)
(* Properties of HashEmbedder, checked under Spec.                         *)
(***************************************************************************)
ValidConfig(e) == e.n_levels >= 1 /\ e.n_features_per_level >= 1

DegenerateConfig(e) ==
    \/ e.n_levels < 1
    \/ e.n_features_per_level < 1
    \/ ~FLeq(e.base_resolution, e.finest_resolution)

\* every index the indexer returned during the call lies in the level's table
IndicesInRange(e, c) ==
    \A i \in DOMAIN c.voxels : \A p \in DOMAIN c.voxels[i] : \A k \in Corner :
        c.voxels[i][p].hashed_voxel_indices[k] \in 0 .. Pow(2, e.log2_hashmap_size) - 1

\* C1: with n_levels >= 1 and n_features_per_level >= 1 (and an indexer that
\* keeps its contract), forward on a batch of N >= 0 points returns; the
\* result has N rows, each of exactly n_levels * n_features_per_level = out_dim
\* components.  The empty batch returns the empty result, with this width.
C1_OutputShape ==
    (op = "forward" /\ ValidConfig(embedder) /\ IndicesInRange(embedder, call)) =>
        /\ call.state = "returned"
        /\ call.result.rows = Len(call.x)
        /\ call.result.cols = embedder.n_levels * embedder.n_features_per_level
        /\ call.result.cols = embedder.out_dim
        /\ DOMAIN call.result.data = 1 .. Len(call.x)
        /\ \A p \in 1 .. Len(call.x) :
              Len(call.result.data[p]) = embedder.n_levels * embedder.n_features_per_level

\* forward has returned from an empty batch, with two levels of two features
C1_Witness ==
    /\ op = "forward" /\ call.state = "returned"
    /\ embedder.n_levels = 2 /\ embedder.n_features_per_level = 2
    /\ Len(call.x) = 0
    /\ call.result.rows = 0 /\ call.result.cols = 4

ConfigOf(e) ==
    <<e.bounding_box, e.n_levels, e.n_features_per_level, e.log2_hashmap_size,
      e.base_resolution, e.finest_resolution, e.b>>

\* C2: a forward call leaves the encoder as it was, every entry of every
\* table and the configuration; once the encoder is constructed its
\* configuration never changes, and a table entry changes only in an
\* optimizer step.
C2_ForwardReadOnly ==
    [][/\ (op' = "forward" => embedder' = embedder)
       /\ (embedder.state = "constructed" => ConfigOf(embedder') = ConfigOf(embedder))
       /\ (embedder.state = "constructed" /\ embedder'.embeddings # embedder.embeddings
              => op' = "optimizer_step")]_vars

\* forward has returned from a batch of two points on tables the optimizer
\* has updated
C2_Witness ==
    /\ op = "forward" /\ call.state = "returned"
    /\ embedder.n_levels = 2 /\ embedder.n_features_per_level >= 1
    /\ embedder.version = 1
    /\ Len(call.x) = 2

\* C3: a configuration with n_levels < 1, n_features_per_level < 1 or
\* finest_resolution < base_resolution is rejected by the constructor: no
\* encoder is constructed from it, and forward never fails for the
\* configuration's sake (torch.cat's RuntimeError on no level).
C3_DegenerateFailsAtConstruction ==
    /\ (embedder.state = "constructed" => ~DegenerateConfig(embedder))
    /\ call.error # "RuntimeError"

\* C4: with n_levels = 1, base_resolution > 0 and finest_resolution >=
\* base_resolution the constructor succeeds with a growth factor of 1, and
\* forward uses the resolution floor(base_resolution).
C4_SingleLevelGrowthOne ==
    (/\ embedder.state \in {"constructed", "raised"}
     /\ embedder.n_levels = 1 /\ embedder.n_features_per_level >= 1
     /\ ~FLeq(embedder.base_resolution, Zero)
     /\ FLeq(embedder.base_resolution, embedder.finest_resolution)) =>
        /\ embedder.state = "constructed"
        /\ embedder.b.ratio = One /\ embedder.b.root # 0
        /\ (call.state # "idle" => call.resolutions[0] = Floor(embedder.base_resolution))

\* C7: with n_features_per_level >= 1, a call in which the indexer returned
\* an index outside 0 .. 2^log2_hashmap_size - 1 raises (nn.Embedding's
\* IndexError) and returns no encoding; a call in which every index is in
\* range looks up every level and returns.
C7_OutOfRangeIndexFatal ==
    (call.state # "idle" /\ ValidConfig(embedder)) =>
        IF IndicesInRange(embedder, call)
        THEN /\ call.state = "returned"
             /\ DOMAIN call.voxels = 0 .. embedder.n_levels - 1
        ELSE /\ call.state = "raised" /\ call.error = "IndexError"
             /\ call.result = IdleCall.result

\* forward has raised on an index out of the second level's table
C7_Witness ==
    /\ op = "forward" /\ call.state = "raised" /\ call.error = "IndexError"
    /\ ValidConfig(embedder)
    /\ DOMAIN call.voxels = 0 .. 1
    /\ Len(call.x) = 2
    /\ ~IndicesInRange(embedder, call)

LevelSlice(row, i, n_features_per_level) ==
    SubSeq(row, i * n_features_per_level + 1, (i + 1) * n_features_per_level)

\* the rows of a table at 8 indices, as the 8 corner features
TableRows(weight, hashed_voxel_indices) ==
    [k \in Corner |->
        [f \in 1 .. Len(weight[hashed_voxel_indices[k]]) |->
            Num(weight[hashed_voxel_indices[k]][f])]]

\* the encoder with one entry of level j's table changed
Perturbed(e, j, h, f) == [e EXCEPT !.embeddings[j][h][f] = @ + 1]

\* C10: in the result of a call, components i*F+1 .. (i+1)*F of point p's row
\* are the trilinear blend of the 8 rows of level i's own table at the
\* indices the indexer gives for point p at resolution_i.  They are the same
\* when one entry of another level's table is changed, and when another
\* point of the batch is replaced.
C10_LevelsIndependentInOrder ==
    (op = "forward" /\ call.state = "returned") =>
        LET F == embedder.n_features_per_level
            Levels == 0 .. embedder.n_levels - 1
            Points == 1 .. Len(call.x)
            slice(c, p, i) == LevelSlice(c.result.data[p], i, F)
        IN  /\ \A p \in Points, i \in Levels :
                  LET v == call.voxels[i][p]
                  IN  /\ v = VoxelOfPoint(call.x[p], embedder.bounding_box,
                                          call.resolutions[i], embedder.log2_hashmap_size,
                                          i, NoFault)
                      /\ slice(call, p, i) =
                            trilinear_interp(call.x[p], v.voxel_min_vertex, v.voxel_max_vertex,
                                             TableRows(embedder.embeddings[i],
                                                       v.hashed_voxel_indices))
            /\ \A j \in Levels : \A h \in DOMAIN embedder.embeddings[j], f \in 1 .. F :
                  LET other == ForwardRun(Perturbed(embedder, j, h, f), call.x,
                                          call.resolutions, NoFault)
                  IN  \A p \in Points, i \in Levels \ {j} : slice(other, p, i) = slice(call, p, i)
            /\ \A q \in Points, n \in 1 .. 4 :
                  LET other == ForwardRun(embedder, [call.x EXCEPT ![q] = PointAt(n)],
                                          call.resolutions, NoFault)
                  IN  \A p \in Points \ {q}, i \in Levels : slice(other, p, i) = slice(call, p, i)

\* forward has returned from two points and two levels of two features whose
\* tables differ, after an optimizer step
C10_Witness ==
    /\ op = "forward" /\ call.state = "returned"
    /\ embedder.n_levels = 2 /\ embedder.n_features_per_level = 2
    /\ embedder.embeddings[0] # embedder.embeddings[1]
    /\ embedder.version = 1
    /\ Len(call.x) = 2 /\ call.x[1] # call.x[2]
    /\ call.resolutions[0] # call.resolutions[1]

====
